---- MODULE Spec2Model ----
(***************************************************************************)
(* Cloudflare firewall access rule resource                                *)
(* (cloudflare/resource_cloudflare_firewall_access_rule.go).               *)
(*                                                                         *)
(* The provider process serves resource operations (Create, Read, Update,  *)
(* Delete, Import) that the engine may run concurrently on separate worker *)
(* routines.  Every operation is a sequence of steps; a step is one remote *)
(* call or one access to a package-level cache map, together with the      *)
(* local code that follows it up to the next such call or access.          *)
(***************************************************************************)
EXTENDS Integers, Sequences, FiniteSets, TLC

(* ------------------------------ bounds --------------------------------- *)
\* operations started in one run of the process
MaxOps == 3
\* listing pages requested in one run of the process
MaxFetches == 2
\* operations that start while an operation of another worker is running
MaxOverlaps == 1
\* highest total-page count a listing response reports
MaxTotalPages == 2
\* most rules on one listing page
MaxPerPage == 2

(* ------------------------------ data ----------------------------------- *)
\* the worker routines of the engine; an operation runs on the first free one
Workers == {1, 2}

ZoneNames == {"za", "zb"}
\* what the remote answers to ZoneIDByName
ZoneIDOf == [za |-> "c1", zb |-> "c2"]
\* Owner.ID of what the remote answers to ZoneDetails
OwnerOf == [c1 |-> "c2", c2 |-> "c1"]

RuleIDs == {"r1", "r2"}

AccessRule(id, mode, target, value, notes) ==
    [ID |-> id, Mode |-> mode, Target |-> target, Value |-> value, Notes |-> notes]

\* rule records the remote listing returns
ListedRules ==
    { AccessRule("r1", "block", "ip", "v1", "n1"),
      AccessRule("r1", "challenge", "ip", "v1", "n2"),
      AccessRule("r2", "block", "ip", "v1", "n1") }

SeqsUpTo(S, n) == UNION { [1..k -> S] : k \in 0..n }

\* a response of ListZoneAccessRules / ListOrganizationAccessRules
ListError == [ok |-> FALSE, Result |-> << >>, TotalPages |-> 0]
ListResponses ==
    { ListError } \cup
    { [ok |-> TRUE, Result |-> r, TotalPages |-> t] :
        r \in SeqsUpTo(ListedRules, MaxPerPage), t \in 0..MaxTotalPages }

\* a Go map[string]AccessRule: a function whose domain is the keys present
EmptyMap == [k \in {} |-> AccessRule("", "", "", "", "")]
MapPut(m, k, v) == [x \in (DOMAIN m) \cup {k} |-> IF x = k THEN v ELSE m[x]]
MapDel(m, k) == [x \in (DOMAIN m) \ {k} |-> m[x]]

\* a merge that keeps the record an ID already has
RECURSIVE MergePage_FirstWins(_, _)
MergePage_FirstWins(m, result) ==
    IF result = << >> THEN m
    ELSE IF Head(result).ID \in DOMAIN m THEN MergePage_FirstWins(m, Tail(result))
    ELSE MergePage_FirstWins(MapPut(m, Head(result).ID, Head(result)), Tail(result))

\* a merge that takes only the first rule of a page
MergePage_FirstOnly(m, result) ==
    IF result = << >> THEN m ELSE MapPut(m, Head(result).ID, Head(result))

\* for _, rule := range res.Result { rules[rule.ID] = rule }
RECURSIVE MergePage(_, _)
MergePage(m, result) ==
    IF result = << >> THEN m
    ELSE MergePage(MapPut(m, Head(result).ID, Head(result)), Tail(result))

\* what the pages listed so far say about each rule ID: the record of the
\* last position at which the ID was listed
Listed(sofar, result) ==
    LET at(i) == { k \in 1..Len(result) : result[k].ID = i }
        last(i) == CHOOSE k \in at(i) : \A j \in at(i) : j <= k
    IN  [i \in (DOMAIN sofar) \cup { result[k].ID : k \in 1..Len(result) } |->
            IF at(i) /= {} THEN result[last(i)] ELSE sofar[i]]

\* a loop exit that does not take a total-page count of 0 for the end
LastPage_OnlyEqual(totalPages, p) == totalPages = p

\* a loop exit that also stops when the total-page count has fallen below
\* the page number
LastPage_Capped(totalPages, p) == totalPages = 0 \/ totalPages <= p

\* the records of rule ID id that listing result after sofar leaves
\* behind: those followed by a later listing of that ID
Replaced(sofar, result, id) ==
    { sofar[i] : i \in { j \in DOMAIN sofar \cap {id} :
                           \E k \in 1..Len(result) : result[k].ID = id } }
    \cup { result[k] : k \in { j \in 1..Len(result) :
                                 /\ result[j].ID = id
                                 /\ \E l \in (j + 1)..Len(result) : result[l].ID = id } }

\* if res.TotalPages == 0 || res.TotalPages == page { break }
LastPage(totalPages, p) == totalPages = 0 \/ totalPages = p

(* --------------------------- resource data ----------------------------- *)
Kinds == {"zone", "organization"}
CollIDs == {"c1", "c2"}

NoRule == AccessRule("", "", "", "", "")
NoData ==
    [zone |-> "", scope |-> "", zone_id |-> "", org_id |-> "", id |-> "",
     mode |-> "", target |-> "", value |-> "", notes |-> ""]

\* the configuration of a resource that Create receives
NewResource(zone, scope, mode) ==
    [NoData EXCEPT !.zone = zone, !.scope = scope, !.mode = mode,
                   !.target = "ip", !.value = "v1", !.notes = "n1"]

\* lines 84-92 and 291-303: org_id is "N/A" for scope "zone", else the
\* owner of the zone
OrgIDFor(scope, zoneID) == IF scope /= "zone" THEN OwnerOf[zoneID] ELSE "N/A"

\* the state of a resource that an earlier run of the provider created
StateResource(zone, scope, id, mode) ==
    [NewResource(zone, scope, mode) EXCEPT
        !.zone_id = ZoneIDOf[zone],
        !.org_id = OrgIDFor(scope, ZoneIDOf[zone]),
        !.id = id]

\* if scope == "zone" {...} else {...}: the API family an operation uses
KindOf(scope) == IF scope = "zone" THEN "zone" ELSE "organization"
\* the collection identifier handed to that API family
KeyOf(dd) == IF dd.scope = "zone" THEN dd.zone_id ELSE dd.org_id

\* the collection of the remote system that resource data dd belongs to
RemoteKey(dd) == <<KindOf(dd.scope), KeyOf(dd)>>

Call(api, arg, p) == [api |-> api, arg |-> arg, page |-> p]

\* a dispatch that takes only the scope "organization" to the organization API
ListAPI_OrgExact(scope) ==
    IF scope = "organization" THEN "ListOrganizationAccessRules" ELSE "ListZoneAccessRules"

\* a find that lists every collection through the zone API
ListAPI_ZoneOnly(scope) == "ListZoneAccessRules"

ListAPI(scope) ==
    IF scope = "zone" THEN "ListZoneAccessRules" ELSE "ListOrganizationAccessRules"
CreateAPI(scope) ==
    IF scope = "zone" THEN "CreateZoneAccessRule" ELSE "CreateOrganizationAccessRule"
UpdateAPI(scope) ==
    IF scope = "zone" THEN "UpdateZoneAccessRule" ELSE "UpdateOrganizationAccessRule"
DeleteAPI(scope) ==
    IF scope = "zone" THEN "DeleteZoneAccessRule" ELSE "DeleteOrganizationAccessRule"

NoPrev ==
    [d |-> NoData, err |-> "", found |-> NoRule, rules |-> EmptyMap, tps |-> << >>]

(* ------------------------ virtual DNS: data ---------------------------- *)
\* cloudflare.VirtualDNS
VirtualDNS(id, name, origins, vips, minTTL, maxTTL, deprecate, ecs, rate) ==
    [ID |-> id, Name |-> name, OriginIPs |-> origins, VirtualDNSIPs |-> vips,
     MinimumCacheTTL |-> minTTL, MaximumCacheTTL |-> maxTTL,
     DeprecateAnyRequests |-> deprecate, EcsFallback |-> ecs, RateLimit |-> rate]

\* the *ResourceData of a virtual DNS resource
ClusterData(id, name, origins, vips, minTTL, maxTTL, deprecate, ecs, rate) ==
    [id |-> id, name |-> name, origin_ips |-> origins, virtual_dns_ips |-> vips,
     minimum_cache_ttl |-> minTTL, maximum_cache_ttl |-> maxTTL,
     deprecate_any_requests |-> deprecate, ecs_fallback |-> ecs, ratelimit |-> rate]

NoCluster == ClusterData("", "", {}, {}, 0, 0, FALSE, FALSE, 0)

ClusterIDs == {"v1", "v2"}

\* configurations the engine hands to Create, with the schema's defaults
PlannedClusters ==
    { ClusterData("", "n1", {"ip1"}, {}, 60, 900, FALSE, FALSE, 5000),
      ClusterData("", "n2", {"ip1", "ip2"}, {"ip9"}, 30, 900, TRUE, TRUE, 0) }

\* resources an earlier run left in the state
KnownClusters ==
    { ClusterData("v1", "n1", {"ip1"}, {"ip9"}, 60, 900, FALSE, FALSE, 5000),
      ClusterData("v2", "n3", {"ip2"}, {}, 30, 600, TRUE, FALSE, 0) }

\* clusters the remote returns from a fetch of cluster id
FetchedClusters(id) ==
    { VirtualDNS(id, "n1", {"ip1"}, {"ip9"}, 60, 900, FALSE, FALSE, 5000),
      VirtualDNS(id, "n3", {"ip2"}, {"ip8"}, 30, 600, TRUE, TRUE, 100) }

\* The text of an error is the list of its words; no error is the empty list.
NoError == << >>
\* errors.Wrap(err, msg): the message, ": ", the text of err
Wrap(e, msg) == msg \o << ":" >> \o e
\* strings.Contains
Contains(text, sub) ==
    \E i \in 0..(Len(text) - Len(sub)) : SubSeq(text, i + 1, i + Len(sub)) = sub

HTTPStatus404 == << "HTTP", "status", "404" >>

\* what makeRequest fails with
RequestErrors ==
    { << "HTTP", "status", "404", ":", "content" >>,
      << "HTTP", "status", "500", ":", "content" >>,
      << "HTTP", "request", "failed" >> }

\* what the calls of the client fail with: errors.Wrap(err, errMakeRequestError)
ClientErrors == { Wrap(e, << "error", "from", "makeRequest" >>) : e \in RequestErrors }

\* what json.Unmarshal fails with on an answer that does not decode
UnmarshalErrors == { << "invalid", "character" >> }

\* errors.Wrap(err, errUnmarshalError)
DecodeErrors ==
    { Wrap(e, << "error", "unmarshalling", "the", "JSON", "response" >>) :
          e \in UnmarshalErrors }

\* every error a call of the client returns
CallErrors == ClientErrors \cup DecodeErrors

\* the Go type of the value d.Get returns for a schema.TypeInt field
IntTypes == {"int", "uint"}

\* a call of the client: its name, the cluster ID and the struct it sends,
\* the zero struct for a call that sends none
VCall(api, id, v) == [api |-> api, id |-> id, v |-> v]

\* the zero cloudflare.VirtualDNS
ZeroVirtualDNS == VirtualDNS("", "", {}, {}, 0, 0, FALSE, FALSE, 0)

\* the answer of CreateOrganizationVirtualDNS before the call is made
NoResponse == [err |-> NoError, nil |-> TRUE, ID |-> ""]

(* ------------------------------ state ---------------------------------- *)
VARIABLES
    remote,                   \* rules this process wrote to the remote store
    zoneAccessRules,          \* var zoneAccessRules (line 149)
    organizationAccessRules,  \* var organizationAccessRules (line 187)
    crashed,                  \* the Go runtime ended the process
    nops,                     \* operations started so far
    nlist,                    \* listing pages requested so far
    pc, op, d,                \* per worker: position, operation, *ResourceData
    rules, page,              \* per worker: locals of get...AccessRules
    tokens, zoneID,           \* per worker: locals of Import
    err, found,               \* per worker: what the operation / find returned
    nover,                    \* operations started while another one ran
    calls,                    \* per worker: the remote calls the operation issued
    tps,                      \* per worker: TotalPages of each page the scan got
    seen,                     \* per worker: per rule ID, the record listed last
    prev,                     \* per worker: the find it completed before
    reported,                 \* per collection: the TotalPages values listed
    older,                    \* per worker: a listing replaced another record of its rule ID
    vpc, vop, vd,             \* virtual DNS: position, operation, *ResourceData
    vold,                     \* virtual DNS: the *ResourceData Read was called with
    verr,                     \* virtual DNS: the error the operation returned
    vcalls,                   \* virtual DNS: the remote calls the operation issued
    vfetch,                   \* virtual DNS: the error the fetch of Read answered
    vcreate                   \* virtual DNS: what the create call of Create answered

vars == <<remote, zoneAccessRules, organizationAccessRules, crashed, nops, nlist,
          nover, pc, op, d, rules, page, tokens, zoneID, err, found, calls,
          tps, seen, prev, reported, older, vpc, vop, vd, vold, verr, vcalls, vfetch,
          vcreate>>

caches == <<zoneAccessRules, organizationAccessRules>>
locals == <<rules, page, tokens, zoneID>>
counts == <<nops, nlist, nover>>
scanlog == <<tps, seen, reported, older>>
vdns == <<vpc, vop, vd, vold, verr, vcalls, vfetch, vcreate>>
\* the variables of the access rule resource that no virtual DNS step touches
rulestate == <<remote, caches, nlist, nover, pc, op, d, locals, err, found, calls,
               scanlog, prev>>

Init ==
    /\ remote = [c \in Kinds \X CollIDs |-> EmptyMap]
    /\ zoneAccessRules = [k \in {} |-> EmptyMap]
    /\ organizationAccessRules = [k \in {} |-> EmptyMap]
    /\ crashed = FALSE
    /\ nops = 0
    /\ nlist = 0
    /\ nover = 0
    /\ pc = [w \in Workers |-> "idle"]
    /\ op = [w \in Workers |-> ""]
    /\ d = [w \in Workers |-> NoData]
    /\ rules = [w \in Workers |-> EmptyMap]
    /\ page = [w \in Workers |-> 0]
    /\ tokens = [w \in Workers |-> << >>]
    /\ zoneID = [w \in Workers |-> ""]
    /\ err = [w \in Workers |-> ""]
    /\ found = [w \in Workers |-> NoRule]
    /\ calls = [w \in Workers |-> << >>]
    /\ tps = [w \in Workers |-> << >>]
    /\ seen = [w \in Workers |-> EmptyMap]
    /\ prev = [w \in Workers |-> NoPrev]
    /\ reported = [c \in Kinds \X CollIDs |-> {}]
    /\ older = [w \in Workers |-> FALSE]
    /\ vpc = "idle"
    /\ vop = ""
    /\ vd = NoCluster
    /\ vold = NoCluster
    /\ verr = NoError
    /\ vcalls = << >>
    /\ vfetch = NoError
    /\ vcreate = NoResponse

\* one cache map for the collections of both API families
CacheOf_Shared(dd) == zoneAccessRules

\* the cache map an operation on resource data dd uses
CacheOf(dd) == IF dd.scope = "zone" THEN zoneAccessRules ELSE organizationAccessRules

(* ------------------------- starting an operation ----------------------- *)
\* the operation of worker w has returned, and it had called find
FindReturned(w) ==
    /\ pc[w] = "done"
    /\ op[w] \in {"Read", "Update", "Create"}
    /\ err[w] \in {"", "not_found", "list_error"}

\* ... and find returned a rule or "not found", not an upstream error
FindCompleted(w) == FindReturned(w) /\ err[w] /= "list_error"

\* The engine calls a handler of the resource with resource data dd.  Only
\* Read operations are followed while another operation runs: Create and
\* Update reach the cache maps through the code of Read alone, and Delete
\* and Import do not reach them.  The
\* handler runs up to its first remote call or cache access, having issued
\* the calls cs, and is then at first (with error e when it has returned)
Begin(self, o, dd, first, cs, e) ==
    /\ ~crashed
    /\ pc[self] \in {"idle", "done"}
    /\ vpc \in {"idle", "done"}
    /\ \A w \in Workers : w < self => pc[w] \notin {"idle", "done"}
    /\ nops < MaxOps
    /\ nops' = nops + 1
    /\ IF \E w \in Workers : pc[w] \notin {"idle", "done"}
       THEN /\ nover < MaxOverlaps
            /\ nover' = nover + 1
            /\ o = "Read"
            /\ \A w \in Workers : pc[w] \notin {"idle", "done"} => op[w] = "Read"
       ELSE nover' = nover
    /\ op' = [op EXCEPT ![self] = o]
    /\ d' = [d EXCEPT ![self] = dd]
    /\ pc' = [pc EXCEPT ![self] = first]
    /\ err' = [err EXCEPT ![self] = e]
    /\ found' = [found EXCEPT ![self] = NoRule]
    /\ calls' = [calls EXCEPT ![self] = cs]
    /\ tps' = [tps EXCEPT ![self] = << >>]
    /\ seen' = [seen EXCEPT ![self] = EmptyMap]
    /\ older' = [older EXCEPT ![self] = FALSE]
    /\ rules' = [rules EXCEPT ![self] = EmptyMap]
    /\ page' = [page EXCEPT ![self] = 0]
    /\ prev' = [prev EXCEPT ![self] =
                  IF FindReturned(self)
                  THEN [d |-> d[self], err |-> err[self], found |-> found[self],
                        rules |-> rules[self], tps |-> tps[self]]
                  ELSE @]
    /\ UNCHANGED <<caches, crashed, nlist, reported>>

\* the resources the engine may hand to Read, Update and Delete: those an
\* earlier run of the provider left in the state, the last of them by an
\* Import of "org/zb/r1"
Known ==
    { StateResource("za", "zone", "r1", "block"),
      StateResource("za", "zone", "r2", "block"),
      StateResource("za", "organization", "r1", "block"),
      StateResource("zb", "org", "r1", "block") }

\* the configurations the engine may hand to Create
Planned == { NewResource("za", sc, "challenge") : sc \in Kinds }

\* an operation returns
Return(self, e) ==
    /\ pc' = [pc EXCEPT ![self] = "done"]
    /\ err' = [err EXCEPT ![self] = e]

(* --------------- findZoneAccessRule / findOrganizationAccessRule ------- *)
\* lines 176-185 / 214-223 after get...AccessRules returned the map m, and
\* lines 138-147 of Read, which every caller of find runs next
ReadReturn(self, m) ==
    LET dd == d[self]
        exists == dd.id \in DOMAIN m
        rule == IF exists THEN m[dd.id] ELSE NoRule
    IN  /\ rules' = [rules EXCEPT ![self] = m]
        /\ found' = [found EXCEPT ![self] = rule]
        /\ Return(self, IF exists THEN "" ELSE "not_found")
        /\ d' = [d EXCEPT ![self] =
                   IF exists
                   THEN [dd EXCEPT !.mode = rule.Mode, !.target = rule.Target,
                                   !.value = rule.Value, !.notes = rule.Notes]
                   ELSE dd]

\* lines 152-158 / 190-196: the lookup in the cache map; on a miss the scan
\* starts at page 1 with an empty map
getAccessRules_Check(self) ==
    /\ ~crashed
    /\ pc[self] = "check"
    /\ LET dd == d[self]
           cache == CacheOf(dd)
       IN  IF KeyOf(dd) \in DOMAIN cache
           THEN /\ ReadReturn(self, cache[KeyOf(dd)])
                /\ UNCHANGED <<remote, caches, crashed, counts, op, page, tokens, zoneID,
                               calls, scanlog, prev>>
           ELSE /\ rules' = [rules EXCEPT ![self] = EmptyMap]
                /\ page' = [page EXCEPT ![self] = 1]
                /\ pc' = [pc EXCEPT ![self] = "list"]
                /\ UNCHANGED <<tokens, zoneID, remote, caches, crashed, counts, op, d,
                               err, found, calls, scanlog, prev>>

\* a scan that writes the pages it has merged into the cache map when a
\* page request fails
getAccessRules_List_CachePartial(self, resp) ==
    /\ ~crashed
    /\ pc[self] = "list"
    /\ nlist < MaxFetches
    /\ nlist' = nlist + 1
    /\ LET dd == d[self]
           p == page[self]
       IN  /\ calls' = [calls EXCEPT ![self] =
                          Append(@, Call(ListAPI(dd.scope), KeyOf(dd), p))]
           /\ IF ~resp.ok
              THEN /\ Return(self, "list_error")
                   /\ IF dd.scope = "zone"
                      THEN /\ zoneAccessRules' =
                                  MapPut(zoneAccessRules, dd.zone_id, rules[self])
                           /\ UNCHANGED organizationAccessRules
                      ELSE /\ organizationAccessRules' =
                                  MapPut(organizationAccessRules, dd.org_id, rules[self])
                           /\ UNCHANGED zoneAccessRules
                   /\ UNCHANGED <<rules, page, scanlog>>
              ELSE /\ tps' = [tps EXCEPT ![self] = Append(@, resp.TotalPages)]
                   /\ seen' = [seen EXCEPT ![self] = Listed(@, resp.Result)]
                   /\ older' = [older EXCEPT ![self] =
                                   @ \/ \E r \in Replaced(seen[self], resp.Result, dd.id) :
                                            r /= Listed(seen[self], resp.Result)[dd.id]]
                   /\ reported' = [reported EXCEPT ![RemoteKey(dd)] =
                                      @ \cup {resp.TotalPages}]
                   /\ rules' = [rules EXCEPT ![self] = MergePage(@, resp.Result)]
                   /\ IF LastPage(resp.TotalPages, p)
                      THEN /\ pc' = [pc EXCEPT ![self] = "store"]
                           /\ page' = page
                      ELSE /\ pc' = pc
                           /\ page' = [page EXCEPT ![self] = p + 1]
                   /\ err' = err
                   /\ UNCHANGED caches
    /\ UNCHANGED <<remote, crashed, nops, nover, op, d, found, prev, tokens, zoneID>>

\* lines 159-171 / 197-209: one iteration of the scan loop; the remote
\* answers the page request with resp
getAccessRules_List(self, resp) ==
    /\ ~crashed
    /\ pc[self] = "list"
    /\ nlist < MaxFetches
    /\ nlist' = nlist + 1
    /\ LET dd == d[self]
           p == page[self]
       IN  /\ calls' = [calls EXCEPT ![self] =
                          Append(@, Call(ListAPI(dd.scope), KeyOf(dd), p))]
           /\ IF ~resp.ok
              THEN /\ Return(self, "list_error")
                   /\ UNCHANGED <<rules, page, scanlog>>
              ELSE /\ tps' = [tps EXCEPT ![self] = Append(@, resp.TotalPages)]
                   /\ seen' = [seen EXCEPT ![self] = Listed(@, resp.Result)]
                   /\ older' = [older EXCEPT ![self] =
                                   @ \/ \E r \in Replaced(seen[self], resp.Result, dd.id) :
                                            r /= Listed(seen[self], resp.Result)[dd.id]]
                   /\ reported' = [reported EXCEPT ![RemoteKey(dd)] =
                                      @ \cup {resp.TotalPages}]
                   /\ rules' = [rules EXCEPT ![self] = MergePage(@, resp.Result)]
                   /\ IF LastPage(resp.TotalPages, p)
                      THEN /\ pc' = [pc EXCEPT ![self] = "store"]
                           /\ page' = page
                      ELSE /\ pc' = pc
                           /\ page' = [page EXCEPT ![self] = p + 1]
                   /\ err' = err
    /\ UNCHANGED <<remote, caches, crashed, nops, nover, op, d, found, prev, tokens, zoneID>>

\* a store that caches the scan only when it holds the requested rule
getAccessRules_Store_FoundOnly(self) ==
    /\ ~crashed
    /\ pc[self] = "store"
    /\ LET dd == d[self]
       IN  /\ IF dd.id \notin DOMAIN rules[self]
              THEN UNCHANGED caches
              ELSE IF dd.scope = "zone"
              THEN /\ zoneAccessRules' = MapPut(zoneAccessRules, dd.zone_id, rules[self])
                   /\ UNCHANGED organizationAccessRules
              ELSE /\ organizationAccessRules' =
                          MapPut(organizationAccessRules, dd.org_id, rules[self])
                   /\ UNCHANGED zoneAccessRules
           /\ ReadReturn(self, rules[self])
    /\ UNCHANGED <<remote, crashed, counts, op, page, tokens, zoneID, calls, scanlog, prev>>

\* lines 172-173 / 210-211: the write of the finished map into the cache map
getAccessRules_Store(self) ==
    /\ ~crashed
    /\ pc[self] = "store"
    /\ LET dd == d[self]
       IN  /\ IF dd.scope = "zone"
              THEN /\ zoneAccessRules' = MapPut(zoneAccessRules, dd.zone_id, rules[self])
                   /\ UNCHANGED organizationAccessRules
              ELSE /\ organizationAccessRules' =
                          MapPut(organizationAccessRules, dd.org_id, rules[self])
                   /\ UNCHANGED zoneAccessRules
           /\ ReadReturn(self, rules[self])
    /\ UNCHANGED <<remote, crashed, counts, op, page, tokens, zoneID, calls, scanlog, prev>>

(* ------------------------------- Read ---------------------------------- *)
\* resourceCloudflareFirewallAccessRuleRead, lines 124-137, up to the call
\* of find
AccessRuleRead(self, dd) ==
    /\ Begin(self, "Read", dd, "check", << >>, "")
    /\ UNCHANGED <<remote, tokens, zoneID>>

(* ------------------------------ Create --------------------------------- *)
\* what CreateZoneAccessRule / CreateOrganizationAccessRule answers: an
\* error, or a response whose Result.ID may be empty
CreateResponses ==
    { [ok |-> FALSE, ID |-> ""] } \cup { [ok |-> TRUE, ID |-> i] : i \in RuleIDs \cup {""} }

\* rule := cloudflare.AccessRule{...} built from the resource data
RuleOf(dd, id) == AccessRule(id, dd.mode, dd.target, dd.value, dd.notes)

\* resourceCloudflareFirewallAccessRuleCreate, lines 73-85 and, for scope
\* "zone", lines 91-101: the call of ZoneIDByName succeeds or fails
AccessRuleCreate(self, dd, ok) ==
    LET cs == << Call("ZoneIDByName", dd.zone, 0) >>
        d1 == [dd EXCEPT !.zone_id = ZoneIDOf[dd.zone]]
    IN  /\ IF ~ok
           THEN Begin(self, "Create", dd, "done", cs, "zone_error")
           ELSE IF dd.scope /= "zone"
                THEN Begin(self, "Create", d1, "c_details", cs, "")
                ELSE Begin(self, "Create", [d1 EXCEPT !.org_id = "N/A"], "c_create", cs, "")
        /\ UNCHANGED <<remote, tokens, zoneID>>

\* a Create that goes on to the create call when ZoneDetails has failed
AccessRuleCreate_ZoneDetails_Ignoring(self, ok) ==
    /\ ~crashed
    /\ pc[self] = "c_details"
    /\ calls' = [calls EXCEPT ![self] = Append(@, Call("ZoneDetails", d[self].zone_id, 0))]
    /\ d' = [d EXCEPT ![self].org_id = IF ok THEN OwnerOf[d[self].zone_id] ELSE "N/A"]
    /\ pc' = [pc EXCEPT ![self] = "c_create"]
    /\ err' = err
    /\ UNCHANGED <<remote, caches, crashed, counts, op, locals, found, scanlog, prev>>

\* lines 86-101: the call of ZoneDetails succeeds or fails
AccessRuleCreate_ZoneDetails(self, ok) ==
    /\ ~crashed
    /\ pc[self] = "c_details"
    /\ calls' = [calls EXCEPT ![self] = Append(@, Call("ZoneDetails", d[self].zone_id, 0))]
    /\ IF ok
       THEN /\ d' = [d EXCEPT ![self].org_id = OwnerOf[d[self].zone_id]]
            /\ pc' = [pc EXCEPT ![self] = "c_create"]
            /\ err' = err
       ELSE /\ Return(self, "details_error")
            /\ d' = d
    /\ UNCHANGED <<remote, caches, crashed, counts, op, locals, found, scanlog, prev>>

\* a Create that goes on into Read whatever ID the create call returned
AccessRuleCreate_Rule_NoIDCheck(self, resp) ==
    /\ ~crashed
    /\ pc[self] = "c_create"
    /\ LET dd == d[self]
       IN  /\ calls' = [calls EXCEPT ![self] = Append(@, Call(CreateAPI(dd.scope), KeyOf(dd), 0))]
           /\ IF ~resp.ok
              THEN /\ Return(self, "create_error")
                   /\ UNCHANGED <<d, remote>>
              ELSE /\ d' = [d EXCEPT ![self].id = resp.ID]
                   /\ remote' = remote
                   /\ pc' = [pc EXCEPT ![self] = "check"]
                   /\ err' = err
    /\ UNCHANGED <<caches, crashed, counts, op, locals, found, scanlog, prev>>

\* lines 103-121: the remote create call answers resp; with a non-empty ID
\* the handler goes on into Read
AccessRuleCreate_Rule(self, resp) ==
    /\ ~crashed
    /\ pc[self] = "c_create"
    /\ LET dd == d[self]
       IN  /\ resp.ok /\ resp.ID /= "" => resp.ID \notin DOMAIN remote[RemoteKey(dd)]
           /\ calls' = [calls EXCEPT ![self] = Append(@, Call(CreateAPI(dd.scope), KeyOf(dd), 0))]
           /\ IF ~resp.ok
              THEN /\ Return(self, "create_error")
                   /\ UNCHANGED <<d, remote>>
              ELSE IF resp.ID = ""
              THEN /\ Return(self, "empty_id")
                   /\ UNCHANGED <<d, remote>>
              ELSE /\ d' = [d EXCEPT ![self].id = resp.ID]
                   /\ remote' = [remote EXCEPT ![RemoteKey(dd)] =
                                    MapPut(@, resp.ID, RuleOf(dd, resp.ID))]
                   /\ pc' = [pc EXCEPT ![self] = "check"]
                   /\ err' = err
    /\ UNCHANGED <<caches, crashed, counts, op, locals, found, scanlog, prev>>

(* ------------------------------ Update --------------------------------- *)
\* resourceCloudflareFirewallAccessRuleUpdate, lines 225-252: the remote
\* update call succeeds or fails; on success the handler goes on into Read
AccessRuleUpdate(self, dd, ok) ==
    LET cs == << Call(UpdateAPI(dd.scope), KeyOf(dd), 0) >>
    IN  /\ IF ok
           THEN /\ Begin(self, "Update", dd, "check", cs, "")
                /\ remote' = [remote EXCEPT ![RemoteKey(dd)] =
                                 MapPut(@, dd.id, RuleOf(dd, dd.id))]
           ELSE /\ Begin(self, "Update", dd, "done", cs, "update_error")
                /\ remote' = remote
        /\ UNCHANGED <<tokens, zoneID>>

(* ------------------------------ Delete --------------------------------- *)
\* resourceCloudflareFirewallAccessRuleDelete, lines 255-272
AccessRuleDelete(self, dd, ok) ==
    LET cs == << Call(DeleteAPI(dd.scope), KeyOf(dd), 0) >>
    IN  /\ IF ok
           THEN /\ Begin(self, "Delete", dd, "done", cs, "")
                /\ remote' = [remote EXCEPT ![RemoteKey(dd)] = MapDel(@, dd.id)]
           ELSE /\ Begin(self, "Delete", dd, "done", cs, "delete_error")
                /\ remote' = remote
        /\ UNCHANGED <<tokens, zoneID>>

(* ------------------------------ Import --------------------------------- *)
\* An import ID is written as the list of its pieces between the "/"
\* characters.  JoinSlash puts pieces back together with "/".
Joined == (<<"r1", "x">> :> "r1/x")
JoinSlash(s) == IF Len(s) = 1 THEN s[1] ELSE Joined[s]

\* strings.SplitN(id, "/", n): at most n tokens, the last one the
\* unsplit remainder
SplitN(segs, n) ==
    IF Len(segs) <= n THEN segs
    ELSE SubSeq(segs, 1, n - 1) \o << JoinSlash(SubSeq(segs, n, Len(segs))) >>

ImportIDs ==
    { <<"zone", "za", "r1">>, <<"organization", "zb", "r2">>, <<"org", "za", "r1">>,
      <<"zone", "za">>, <<"zone", "za", "r1", "x">> }

\* the *ResourceData Import returns, lines 300-305
Imported(toks, zid, orgID) ==
    [NoData EXCEPT !.scope = toks[1], !.zone = toks[2], !.zone_id = zid,
                   !.org_id = orgID, !.id = toks[3]]

\* resourceCloudflareFirewallAccessRuleImport, lines 274-292 and, for scope
\* "zone", lines 299-305: the ID is split and ZoneIDByName succeeds or
\* fails.  The resource data holds nothing but the ID until line 300.
AccessRuleImport(self, importID, ok) ==
    LET toks == SplitN(importID, 3)
        cs == << Call("ZoneIDByName", toks[2], 0) >>
    IN  IF Len(toks) /= 3
        THEN /\ ok
             /\ Begin(self, "Import", NoData, "done", << >>, "invalid_id")
             /\ UNCHANGED <<remote, tokens, zoneID>>
        ELSE IF ~(ok /\ toks[2] \in ZoneNames)
        THEN /\ Begin(self, "Import", NoData, "done", cs, "zone_error")
             /\ UNCHANGED <<remote, tokens, zoneID>>
        ELSE IF toks[1] /= "zone"
        THEN /\ Begin(self, "Import", NoData, "i_details", cs, "")
             /\ tokens' = [tokens EXCEPT ![self] = toks]
             /\ zoneID' = [zoneID EXCEPT ![self] = ZoneIDOf[toks[2]]]
             /\ UNCHANGED remote
        ELSE /\ Begin(self, "Import", Imported(toks, ZoneIDOf[toks[2]], "N/A"),
                      "done", cs, "")
             /\ UNCHANGED <<remote, tokens, zoneID>>

\* lines 293-305: the call of ZoneDetails succeeds or fails
AccessRuleImport_ZoneDetails(self, ok) ==
    /\ ~crashed
    /\ pc[self] = "i_details"
    /\ calls' = [calls EXCEPT ![self] = Append(@, Call("ZoneDetails", zoneID[self], 0))]
    /\ IF ok
       THEN /\ d' = [d EXCEPT ![self] =
                       Imported(tokens[self], zoneID[self], OwnerOf[zoneID[self]])]
            /\ Return(self, "")
       ELSE /\ Return(self, "details_error")
            /\ d' = d
    /\ tokens' = [tokens EXCEPT ![self] = << >>]
    /\ zoneID' = [zoneID EXCEPT ![self] = ""]
    /\ UNCHANGED <<remote, caches, crashed, counts, op, rules, page, found, scanlog, prev>>

(* -------------------------- the Go runtime ----------------------------- *)
\* two workers are at conflicting accesses (one of them a write) to the
\* same unsynchronized cache map
RaceOn(w1, w2) ==
    /\ w1 /= w2
    /\ pc[w1] = "store"
    /\ pc[w2] \in {"check", "store"}
    /\ KindOf(d[w1].scope) = KindOf(d[w2].scope)

DataRace == \E w1, w2 \in Workers : RaceOn(w1, w2)

\* "fatal error: concurrent map writes" / "concurrent map read and map
\* write": one outcome of a racing map access; the other outcomes are the
\* accesses taking effect in either order
Crash ==
    /\ ~crashed
    /\ DataRace
    /\ crashed' = TRUE
    /\ UNCHANGED <<remote, caches, counts, pc, op, d, locals, err, found,
                   calls, scanlog, prev>>

(* --------------------------- virtual DNS ------------------------------- *)
\* The engine calls a handler of the virtual DNS resource with resource
\* data dd; the handler runs up to its first remote call and beyond it to
\* the next, having issued the calls cs; it is then at first, with the
\* error e when it has returned, and the resource data is dd1.
VBegin(o, dd1, first, cs, e) ==
    /\ ~crashed
    /\ vpc \in {"idle", "done"}
    /\ \A w \in Workers : pc[w] \in {"idle", "done"}
    /\ nops < MaxOps
    /\ nops' = nops + 1
    /\ vop' = o
    /\ vd' = dd1
    /\ vold' = dd1
    /\ vpc' = first
    /\ verr' = e
    /\ vcalls' = cs
    /\ vfetch' = NoError
    /\ UNCHANGED rulestate

\* &cloudflare.VirtualDNS{...} of Create, lines 81-95: neither the ID nor
\* VirtualDNSIPs is set; GetOk leaves a field at its zero value, which is
\* the value it reports as not set
VirtualDNSCreate_Struct(dd) ==
    VirtualDNS("", dd.name, dd.origin_ips, {},
               dd.minimum_cache_ttl, dd.maximum_cache_ttl,
               dd.deprecate_any_requests, dd.ecs_fallback, dd.ratelimit)

\* &cloudflare.VirtualDNS{...} of Update, lines 118-136
VirtualDNSUpdate_Struct(dd) ==
    VirtualDNS(dd.id, dd.name, dd.origin_ips, dd.virtual_dns_ips,
               dd.minimum_cache_ttl, dd.maximum_cache_ttl,
               dd.deprecate_any_requests, dd.ecs_fallback, dd.ratelimit)

\* what CreateOrganizationVirtualDNS answers: an error of the request or of
\* the decoding with a nil result, or no error with the result of the
\* answer, which is nil or a cluster whose ID may be empty
ClusterCreateResponses ==
    { [err |-> e, nil |-> TRUE, ID |-> ""] : e \in CallErrors }
    \cup { [err |-> NoError, nil |-> TRUE, ID |-> ""] }
    \cup { [err |-> NoError, nil |-> FALSE, ID |-> i] : i \in ClusterIDs \cup {""} }

\* resourceCloudflareVirtualDNSCreate, lines 78-112: the type assertion
\* .(uint) of line 84 panics unless d.Get returns a uint; otherwise the
\* remote create call answers resp; res.ID of line 104 panics on a nil
\* result, and with a non-empty ID the handler goes on into Read
VirtualDNSCreate(dd, intType, resp) ==
    LET cs == << VCall("CreateOrganizationVirtualDNS", "", VirtualDNSCreate_Struct(dd)) >>
    IN  IF intType /= "uint"
        THEN /\ resp = NoResponse
             /\ VBegin("Create", dd, "done", << >>, << "panic" >>)
             /\ crashed' = TRUE
             /\ vcreate' = NoResponse
        ELSE /\ vcreate' = resp
             /\ IF resp.err /= NoError
                THEN /\ VBegin("Create", dd, "done", cs,
                               Wrap(resp.err, << "error", "creating", "virtual", "dns" >>))
                     /\ crashed' = crashed
                ELSE IF resp.nil
                THEN /\ VBegin("Create", dd, "done", cs, << "panic" >>)
                     /\ crashed' = TRUE
                ELSE IF resp.ID = ""
                THEN /\ VBegin("Create", dd, "done", cs,
                               << "cailed", "to", "find", "id", "in", "create",
                                  "response;", "resource", "was", "empty" >>)
                     /\ crashed' = crashed
                ELSE /\ VBegin("Create", [dd EXCEPT !.id = resp.ID], "v_fetch", cs, NoError)
                     /\ crashed' = crashed

\* resourceCloudflareVirtualDNSUpdate, lines 115-145
VirtualDNSUpdate(dd, intType, e) ==
    LET cs == << VCall("UpdateOrganizationVirtualDNS", dd.id, VirtualDNSUpdate_Struct(dd)) >>
    IN  /\ vcreate' = NoResponse
        /\ IF intType /= "uint"
           THEN /\ e = NoError
                /\ VBegin("Update", dd, "done", << >>, << "panic" >>)
                /\ crashed' = TRUE
           ELSE /\ crashed' = crashed
                /\ IF e /= NoError
                   THEN VBegin("Update", dd, "done", cs,
                               Wrap(e, << "error", "updating", "VirtualDNS" >>))
                   ELSE VBegin("Update", dd, "v_fetch", cs, NoError)

\* resourceCloudflareVirtualDNSRead, lines 148-150, called by the engine
VirtualDNSRead(dd) ==
    /\ VBegin("Read", dd, "v_fetch", << >>, NoError)
    /\ crashed' = crashed
    /\ vcreate' = NoResponse

\* what OrganizationVirtualDNS answers for cluster id: an error of the
\* request or of the decoding with a nil result, or no error with the result
\* of the answer, which is nil or a cluster
FetchResponses(id) ==
    { [err |-> e, nil |-> TRUE, Result |-> ZeroVirtualDNS] : e \in CallErrors }
    \cup { [err |-> NoError, nil |-> TRUE, Result |-> ZeroVirtualDNS] }
    \cup { [err |-> NoError, nil |-> FALSE, Result |-> c] : c \in FetchedClusters(id) }

\* a Read that takes every fetch error for a missing cluster
VirtualDNSRead_Fetch_AnyError(resp) ==
    /\ ~crashed
    /\ vpc = "v_fetch"
    /\ vcalls' = Append(vcalls, VCall("OrganizationVirtualDNS", vd.id, ZeroVirtualDNS))
    /\ vfetch' = resp.err
    /\ vpc' = "done"
    /\ IF resp.err /= NoError
       THEN /\ vd' = [vd EXCEPT !.id = ""]
            /\ verr' = NoError
       ELSE /\ vd' = [vd EXCEPT !.name = resp.Result.Name]
            /\ verr' = NoError
    /\ UNCHANGED <<rulestate, crashed, nops, vop, vold, vcreate>>

\* resourceCloudflareVirtualDNSRead, lines 151-174: the fetch answers resp;
\* virtualDNS.Name of line 165 panics on a nil result
VirtualDNSRead_Fetch(resp) ==
    /\ ~crashed
    /\ vpc = "v_fetch"
    /\ vcalls' = Append(vcalls, VCall("OrganizationVirtualDNS", vd.id, ZeroVirtualDNS))
    /\ vfetch' = resp.err
    /\ vpc' = "done"
    /\ IF resp.err /= NoError
       THEN IF Contains(resp.err, HTTPStatus404)
            THEN /\ vd' = [vd EXCEPT !.id = ""]
                 /\ verr' = NoError
                 /\ crashed' = crashed
            ELSE /\ vd' = vd
                 /\ verr' = Wrap(resp.err,
                                 << "Error", "reading", "VirtualDNS", "from", "API",
                                    "for", "resource", vd.id >>)
                 /\ crashed' = crashed
       ELSE IF resp.nil
       THEN /\ vd' = vd
            /\ verr' = << "panic" >>
            /\ crashed' = TRUE
       ELSE /\ vd' = [vd EXCEPT
                        !.name = resp.Result.Name,
                        !.origin_ips = resp.Result.OriginIPs,
                        !.virtual_dns_ips = resp.Result.VirtualDNSIPs,
                        !.minimum_cache_ttl = resp.Result.MinimumCacheTTL,
                        !.maximum_cache_ttl = resp.Result.MaximumCacheTTL,
                        !.deprecate_any_requests = resp.Result.DeprecateAnyRequests,
                        !.ecs_fallback = resp.Result.EcsFallback,
                        !.ratelimit = resp.Result.RateLimit]
            /\ verr' = NoError
            /\ crashed' = crashed
    /\ UNCHANGED <<rulestate, nops, vop, vold, vcreate>>

\* resourceCloudflareVirtualDNSDelete, lines 177-188
VirtualDNSDelete(dd, e) ==
    /\ VBegin("Delete", dd, "done",
              << VCall("DeleteOrganizationVirtualDNS", dd.id, ZeroVirtualDNS) >>,
              IF e = NoError THEN NoError
              ELSE Wrap(e, << "error", "deleting", "Cloudflare", "VirtualDNS" >>))
    /\ crashed' = crashed
    /\ vcreate' = NoResponse

\* the operations of the virtual DNS resource alone
VirtualDNSNext ==
    \/ \E dd \in PlannedClusters, t \in IntTypes : \E resp \in ClusterCreateResponses :
            VirtualDNSCreate(dd, t, resp)
    \/ \E dd \in KnownClusters, t \in IntTypes : \E e \in CallErrors \cup {NoError} :
            VirtualDNSUpdate([dd EXCEPT !.name = "n2"], t, e)
    \/ \E dd \in KnownClusters : VirtualDNSRead(dd)
    \/ \E resp \in FetchResponses(vd.id) : VirtualDNSRead_Fetch(resp)
    \/ \E dd \in KnownClusters : \E e \in CallErrors \cup {NoError} :
            VirtualDNSDelete(dd, e)

VirtualDNSSpec == Init /\ [][VirtualDNSNext]_vars

\* the Create operations of both resources, with the reads they end in
CreateNext ==
    \/ \E self \in Workers : \E dd \in Planned, ok \in BOOLEAN :
            AccessRuleCreate(self, dd, ok) /\ UNCHANGED vdns
    \/ \E self \in Workers, ok \in BOOLEAN :
            AccessRuleCreate_ZoneDetails(self, ok) /\ UNCHANGED vdns
    \/ \E self \in Workers : \E resp \in CreateResponses :
            AccessRuleCreate_Rule(self, resp) /\ UNCHANGED vdns
    \/ \E self \in Workers : getAccessRules_Check(self) /\ UNCHANGED vdns
    \/ \E self \in Workers : \E resp \in ListResponses :
            getAccessRules_List(self, resp) /\ UNCHANGED vdns
    \/ \E self \in Workers : getAccessRules_Store(self) /\ UNCHANGED vdns
    \/ \E dd \in PlannedClusters, t \in IntTypes : \E resp \in ClusterCreateResponses :
            VirtualDNSCreate(dd, t, resp)
    \/ \E resp \in FetchResponses(vd.id) : VirtualDNSRead_Fetch(resp)

CreateSpec == Init /\ [][CreateNext]_vars

Next ==
    \/ \E self \in Workers : \E dd \in Planned, ok \in BOOLEAN :
            AccessRuleCreate(self, dd, ok) /\ UNCHANGED vdns
    \/ \E self \in Workers, ok \in BOOLEAN :
            AccessRuleCreate_ZoneDetails(self, ok) /\ UNCHANGED vdns
    \/ \E self \in Workers : \E resp \in CreateResponses :
            AccessRuleCreate_Rule(self, resp) /\ UNCHANGED vdns
    \/ \E self \in Workers : \E dd \in Known :
            AccessRuleRead(self, dd) /\ UNCHANGED vdns
    \/ \E self \in Workers : \E dd \in Known : \E ok \in BOOLEAN :
            AccessRuleUpdate(self, [dd EXCEPT !.mode = "challenge"], ok) /\ UNCHANGED vdns
    \/ \E self \in Workers : \E dd \in Known : \E ok \in BOOLEAN :
            AccessRuleDelete(self, dd, ok) /\ UNCHANGED vdns
    \/ \E self \in Workers : \E id \in ImportIDs, ok \in BOOLEAN :
            AccessRuleImport(self, id, ok) /\ UNCHANGED vdns
    \/ \E self \in Workers, ok \in BOOLEAN :
            AccessRuleImport_ZoneDetails(self, ok) /\ UNCHANGED vdns
    \/ \E self \in Workers : getAccessRules_Check(self) /\ UNCHANGED vdns
    \/ \E self \in Workers : \E resp \in ListResponses :
            getAccessRules_List(self, resp) /\ UNCHANGED vdns
    \/ \E self \in Workers : getAccessRules_Store(self) /\ UNCHANGED vdns
    \/ Crash /\ UNCHANGED vdns

Spec == Init /\ [][Next]_vars

(* ------------------------- reading the call log ------------------------ *)
ListAPIs == {"ListZoneAccessRules", "ListOrganizationAccessRules"}
CreateAPIs == {"CreateZoneAccessRule", "CreateOrganizationAccessRule"}

IsListCall(c) == c.api \in ListAPIs
\* the page requests the operation of worker w has issued, in order
ListCalls(w) == SelectSeq(calls[w], IsListCall)
PagesOf(cs) == [i \in 1..Len(cs) |-> cs[i].page]
UpTo(n) == [i \in 1..n |-> i]
\* how many calls of the API the operation of worker w has issued
CountCalls(w, api) == Cardinality({ i \in DOMAIN calls[w] : calls[w][i].api = api })

(* ------------------------------ properties ----------------------------- *)
\* C1: where the listing of a collection reports the same total-page count
\* P >= 1 on every page, a find that scans requests the pages 1..P in
\* order, once each, and returns the listed record of its rule ID; a later
\* find for another rule ID that the scan listed issues no page request
\* and returns that rule's record.
C1_ColdScanThenCacheHit ==
    \A w \in Workers : \A P \in 1..MaxTotalPages :
        /\ (/\ tps[w] /= << >>
            /\ err[w] /= "list_error"
            /\ reported[RemoteKey(d[w])] = {P}) =>
               LET n == Len(tps[w])
               IN  /\ PagesOf(ListCalls(w)) = UpTo(n)
                   /\ n <= P
                   /\ (pc[w] = "list") <=> (n < P)
                   /\ (pc[w] = "done" /\ d[w].id \in DOMAIN seen[w]) =>
                          (err[w] = "" /\ found[w] = seen[w][d[w].id])
        /\ (/\ FindCompleted(w)
            /\ prev[w].tps /= << >>
            /\ prev[w].err = ""
            /\ RemoteKey(prev[w].d) = RemoteKey(d[w])
            /\ reported[RemoteKey(d[w])] = {P}
            /\ d[w].id /= prev[w].d.id
            /\ d[w].id \in DOMAIN prev[w].rules) =>
               /\ ListCalls(w) = << >>
               /\ err[w] = ""
               /\ found[w] = prev[w].rules[d[w].id]

\* C2: a scan whose page 1 reports a total-page count of 0 and no rules
\* ends after that one request for page 1, and the find returns "not found".
C2_EmptyCollection ==
    \A w \in Workers :
        (tps[w] /= << >> /\ tps[w][1] = 0 /\ seen[w] = EmptyMap) =>
            /\ Len(tps[w]) = 1
            /\ pc[w] /= "list"
            /\ PagesOf(ListCalls(w)) = << 1 >>
            /\ pc[w] = "done" => (err[w] = "not_found" /\ found[w] = NoRule)

\* an empty collection was scanned by a Read, which returned "not found"
C2_Witness ==
    \E w \in Workers :
        /\ op[w] = "Read" /\ pc[w] = "done"
        /\ tps[w] = << 0 >> /\ seen[w] = EmptyMap
        /\ err[w] = "not_found"

\* C3: a find that follows a completed find of the same worker for the same
\* collection and rule ID issues no page request and returns what the
\* earlier find returned.
C3_WarmFindIdempotent ==
    \A w \in Workers :
        (/\ FindCompleted(w)
         /\ prev[w].err /= "list_error"
         /\ RemoteKey(prev[w].d) = RemoteKey(d[w])
         /\ prev[w].d.id = d[w].id) =>
            /\ ListCalls(w) = << >>
            /\ err[w] = prev[w].err
            /\ found[w] = prev[w].found

\* C4: every page request of an operation on a rule of scope "zone" is a
\* ListZoneAccessRules call with the zone ID, and every page request of an
\* operation on a rule of scope "organization" is a
\* ListOrganizationAccessRules call with the organization ID.
C4_ScopeRouting ==
    \A w \in Workers : \A i \in DOMAIN calls[w] :
        IsListCall(calls[w][i]) =>
            /\ d[w].scope = "zone" =>
                  /\ calls[w][i].api = "ListZoneAccessRules"
                  /\ calls[w][i].arg = ZoneIDOf[d[w].zone]
            /\ d[w].scope = "organization" =>
                  /\ calls[w][i].api = "ListOrganizationAccessRules"
                  /\ calls[w][i].arg = OwnerOf[ZoneIDOf[d[w].zone]]

\* a find for a zone rule and a find for an organization rule have both
\* requested a page
C4_Witness ==
    \E w1, w2 \in Workers :
        /\ d[w1].scope = "zone" /\ ListCalls(w1) /= << >>
        /\ d[w2].scope = "organization" /\ ListCalls(w2) /= << >>

\* C5: the step of a find in which a page request fails returns the
\* upstream error at once, with the failed request as the last call, and
\* writes nothing into the cache maps; no step of a scan that requests a page
\* writes the cache maps, so the rules of the pages already fetched are not
\* cached; a find with the upstream error has returned, its last call is
\* the failed request and it issues no call until the engine starts the
\* next operation; and a find that meets no entry for its collection starts
\* its scan at page 1 with an empty mapping.
C5_FailedScanNotCached ==
    [][ \A w \in Workers :
          /\ (pc[w] = "list" /\ err'[w] = "list_error") =>
                /\ pc'[w] = "done"
                /\ found'[w] = NoRule
                /\ Len(calls'[w]) = Len(calls[w]) + 1
                /\ calls'[w][Len(calls'[w])] =
                      Call(IF d[w].scope = "zone" THEN "ListZoneAccessRules"
                                                  ELSE "ListOrganizationAccessRules",
                           IF d[w].scope = "zone" THEN d[w].zone_id ELSE d[w].org_id,
                           page[w])
                /\ caches' = caches
          /\ (pc[w] = "list" /\ calls'[w] /= calls[w]) => caches' = caches
          /\ err[w] = "list_error" =>
                /\ pc[w] = "done"
                /\ IsListCall(calls[w][Len(calls[w])])
                /\ calls'[w] /= calls[w] => nops' = nops + 1
          /\ (/\ pc[w] = "check" /\ pc'[w] /= "check"
              /\ IF d[w].scope = "zone"
                 THEN d[w].zone_id \notin DOMAIN zoneAccessRules
                 ELSE d[w].org_id \notin DOMAIN organizationAccessRules) =>
                /\ pc'[w] = "list"
                /\ page'[w] = 1
                /\ rules'[w] = EmptyMap
                /\ calls'[w] = calls[w]
      ]_vars

\* a find fetched a page holding rules and failed on the next request; the
\* cache holds no entry for its collection, and the find that follows on
\* that collection has met no entry and is at page 1 of a new scan
C5_Witness ==
    \E w \in Workers :
        /\ pc[w] = "list" /\ page[w] = 1 /\ ListCalls(w) = << >>
        /\ rules[w] = EmptyMap
        /\ prev[w].err = "list_error"
        /\ Len(prev[w].tps) = 1
        /\ prev[w].rules /= EmptyMap
        /\ RemoteKey(prev[w].d) = RemoteKey(d[w])
        /\ KeyOf(d[w]) \notin DOMAIN CacheOf(d[w])

\* C6: no two workers are at conflicting accesses to the cache map for the
\* same collection ID.
C6_NoDataRace ==
    \A w1, w2 \in Workers :
        ~(RaceOn(w1, w2) /\ KeyOf(d[w1]) = KeyOf(d[w2]))

\* C7: a Create whose create call returned a non-empty rule ID, with the
\* rule in the remote store and in what the listing returned, ends without
\* error and with the created rule.
C7_ReadAfterCreate ==
    \A w \in Workers :
        (/\ op[w] = "Create" /\ pc[w] = "done"
         /\ d[w].id /= ""
         /\ err[w] /= "list_error"
         /\ d[w].id \in DOMAIN remote[RemoteKey(d[w])]
         /\ tps[w] /= << >> => d[w].id \in DOMAIN seen[w]) =>
            (err[w] = "" /\ found[w].ID = d[w].id)

\* C8: no step changes or removes a mapping that a cache map holds, and a
\* find that meets a mapping for its collection does not go on to list.
C8_CachePermanence ==
    [][ /\ \A k \in DOMAIN zoneAccessRules :
              k \in DOMAIN zoneAccessRules' /\ zoneAccessRules'[k] = zoneAccessRules[k]
        /\ \A k \in DOMAIN organizationAccessRules :
              /\ k \in DOMAIN organizationAccessRules'
              /\ organizationAccessRules'[k] = organizationAccessRules[k]
        /\ \A w \in Workers :
              (pc[w] = "check" /\ KeyOf(d[w]) \in DOMAIN CacheOf(d[w])) => pc'[w] /= "list"
      ]_vars

\* the scope a Create or Import works on
ScopeOf(w) == IF tokens[w] /= << >> THEN tokens[w][1] ELSE d[w].scope
\* the Create or Import of worker w is past its scope resolution
Resolved(w) ==
    \/ pc[w] \in {"c_create", "check", "list", "store"}
    \/ pc[w] = "done" /\ err[w] \notin {"zone_error", "details_error", "invalid_id"}

\* C9: a Create or Import with scope "zone" issues no ZoneDetails call and
\* uses the zone ID as the collection; with scope "organization" it issues
\* exactly one ZoneDetails call and uses the owner ID; when that call fails
\* the operation returns its error at once, with no call after it.
C9_ScopeResolution ==
    \A w \in Workers :
        op[w] \in {"Create", "Import"} =>
            /\ CountCalls(w, "ZoneDetails") <= 1
            /\ (ScopeOf(w) = "zone" /\ Resolved(w)) =>
                  /\ CountCalls(w, "ZoneDetails") = 0
                  /\ d[w].org_id = "N/A"
                  /\ \A i \in DOMAIN calls[w] :
                        calls[w][i].api \in ListAPIs \cup CreateAPIs =>
                            calls[w][i].arg = ZoneIDOf[d[w].zone]
            /\ (ScopeOf(w) = "organization" /\ Resolved(w)) =>
                  /\ CountCalls(w, "ZoneDetails") = 1
                  /\ d[w].org_id = OwnerOf[ZoneIDOf[d[w].zone]]
                  /\ \A i \in DOMAIN calls[w] :
                        calls[w][i].api \in ListAPIs \cup CreateAPIs =>
                            calls[w][i].arg = OwnerOf[ZoneIDOf[d[w].zone]]
            /\ err[w] = "details_error" =>
                  /\ pc[w] = "done"
                  /\ calls[w][Len(calls[w])].api = "ZoneDetails"
                  /\ \A i \in DOMAIN calls[w] :
                        calls[w][i].api \notin ListAPIs \cup CreateAPIs

\* a Create with scope "organization" has resolved the owner, created the
\* rule and read it back
C9_Witness ==
    \E w \in Workers :
        /\ op[w] = "Create" /\ pc[w] = "done" /\ err[w] = ""
        /\ d[w].scope = "organization"
        /\ CountCalls(w, "ZoneDetails") = 1
        /\ CountCalls(w, "CreateOrganizationAccessRule") = 1

\* C10: a scan goes on to the next page exactly as long as no page k has
\* reported a total-page count of 0 or of k; it ends at the first such page.
C10_PaginationTermination ==
    \A w \in Workers :
        LET n == Len(tps[w])
        IN  /\ \A k \in 1..(n - 1) : tps[w][k] /= 0 /\ tps[w][k] /= k
            /\ pc[w] = "list" =>
                  /\ page[w] = n + 1
                  /\ n >= 1 => (tps[w][n] /= 0 /\ tps[w][n] /= n)
            /\ (pc[w] = "store" \/ (FindCompleted(w) /\ n >= 1)) =>
                  /\ n >= 1
                  /\ tps[w][n] = 0 \/ tps[w][n] = n
                  /\ PagesOf(ListCalls(w)) = UpTo(n)

\* a scan is about to request page 3 after page 2 reported a total-page
\* count of 1
C10_Witness ==
    \E w \in Workers :
        /\ pc[w] = "list" /\ page[w] = 3
        /\ tps[w] = << 2, 1 >>

\* C11: a find whose scan ended without a failed request and did not list
\* the requested rule ID returns "not found" and has left an entry for the
\* collection in the cache; a later find of the worker for that collection
\* issues no page request.
C11_NotFoundStillCached ==
    \A w \in Workers :
        /\ (/\ FindCompleted(w)
            /\ tps[w] /= << >>
            /\ d[w].id \notin DOMAIN seen[w]) =>
               /\ err[w] = "not_found"
               /\ found[w] = NoRule
               /\ KeyOf(d[w]) \in DOMAIN CacheOf(d[w])
        /\ (/\ FindReturned(w)
            /\ prev[w].err = "not_found"
            /\ prev[w].tps /= << >>
            /\ RemoteKey(prev[w].d) = RemoteKey(d[w])) =>
               ListCalls(w) = << >>

\* a find has asked again for a rule ID that its worker's scan of the
\* collection did not list
C11_Witness ==
    \E w \in Workers :
        /\ FindCompleted(w)
        /\ prev[w].err = "not_found" /\ prev[w].tps /= << >>
        /\ RemoteKey(prev[w].d) = RemoteKey(d[w])
        /\ prev[w].d.id = d[w].id
        /\ ListCalls(w) = << >>
        /\ err[w] = "not_found"

\* C12: the step that ends a scan stores, under the collection ID of the
\* scan and in the map of its API family, a mapping whose keys are exactly
\* the rule IDs the scan's pages listed, each with a listed record of that ID.
C12_WholeScanCached ==
    [][ \A w \in Workers :
          (pc[w] = "store" /\ pc'[w] = "done") =>
              LET key == KeyOf(d[w])
                  cache == IF d[w].scope = "zone" THEN zoneAccessRules'
                           ELSE organizationAccessRules'
              IN  /\ key \in DOMAIN cache
                  /\ DOMAIN cache[key] = DOMAIN seen[w]
                  /\ \A i \in DOMAIN cache[key] :
                        cache[key][i].ID = i /\ cache[key][i] \in ListedRules
      ]_vars

\* a scan of two pages has stored both rules it listed, one of them the
\* rule the find asked for
C12_Witness ==
    \E w \in Workers :
        /\ FindCompleted(w) /\ Len(tps[w]) = 2
        /\ DOMAIN seen[w] = {"r1", "r2"}
        /\ KeyOf(d[w]) \in DOMAIN CacheOf(d[w])
        /\ DOMAIN CacheOf(d[w])[KeyOf(d[w])] = {"r1", "r2"}
        /\ found[w].ID = "r1"

\* C13: the mapping of a scan holds, for every rule ID, the record that the
\* pages fetched so far listed last for that ID, and the find returns that
\* record for its rule ID.
C13_LastWriteWins ==
    \A w \in Workers :
        tps[w] /= << >> =>
            /\ rules[w] = seen[w]
            /\ (FindCompleted(w) /\ d[w].id \in DOMAIN seen[w]) =>
                   found[w] = seen[w][d[w].id]
            /\ older[w] => d[w].id \in DOMAIN rules[w]

\* a find has returned the "challenge" record of r1 after the scan had
\* listed a different record of r1 before it
C13_Witness ==
    \E w \in Workers :
        /\ FindCompleted(w) /\ err[w] = ""
        /\ older[w]
        /\ found[w] = AccessRule("r1", "challenge", "ip", "v1", "n2")

\* C14: a Read, or the Read at the end of an Update, that runs after a find
\* of its worker has completed for the collection issues no listing call
\* (a Read no remote call at all) and sets mode, target, value and notes to
\* the values of the mapping that earlier find met, whatever the remote
\* store holds by then.
C14_StaleReadOnWarmCache ==
    \A w \in Workers :
        (/\ FindReturned(w)
         /\ op[w] \in {"Read", "Update"}
         /\ prev[w].err /= "list_error"
         /\ RemoteKey(prev[w].d) = RemoteKey(d[w])) =>
            /\ ListCalls(w) = << >>
            /\ op[w] = "Read" => calls[w] = << >>
            /\ op[w] = "Update" => Len(calls[w]) = 1
            /\ d[w].id \in DOMAIN prev[w].rules =>
                  /\ err[w] = ""
                  /\ d[w].mode = prev[w].rules[d[w].id].Mode
                  /\ d[w].target = prev[w].rules[d[w].id].Target
                  /\ d[w].value = prev[w].rules[d[w].id].Value
                  /\ d[w].notes = prev[w].rules[d[w].id].Notes
            /\ d[w].id \notin DOMAIN prev[w].rules => err[w] = "not_found"

IsFetchCall(c) == c.api = "OrganizationVirtualDNS"
\* the fetches the virtual DNS operation has issued
FetchCalls == SelectSeq(vcalls, IsFetchCall)

\* C15: a Create whose remote create call failed or returned an empty ID
\* has returned an error with the resource ID unset and has issued no
\* listing call (access rule) or fetch call (virtual DNS); a Create reads
\* back, and holds an ID, only after a create call that returned an ID.
C15_CreateSetsIDOnSuccessOnly ==
    /\ \A w \in Workers :
          op[w] = "Create" =>
              /\ err[w] \in {"create_error", "empty_id"} =>
                    /\ pc[w] = "done"
                    /\ d[w].id = ""
                    /\ calls[w][Len(calls[w])].api \in CreateAPIs
                    /\ ListCalls(w) = << >>
              /\ (d[w].id /= "" \/ ListCalls(w) /= << >> \/ pc[w] \in {"check", "list", "store"}) =>
                    /\ d[w].id \in RuleIDs
                    /\ err[w] \notin {"create_error", "empty_id"}
                    /\ CountCalls(w, CreateAPI(d[w].scope)) = 1
    /\ (vop = "Create" /\ vcalls /= << >>) =>
          /\ (vcreate.err /= NoError \/ (~vcreate.nil /\ vcreate.ID = "")) =>
                /\ vpc = "done"
                /\ ~crashed
                /\ verr /= NoError
                /\ vcreate.err /= NoError => Contains(verr, vcreate.err)
                /\ vd.id = ""
                /\ FetchCalls = << >>
          /\ (vd.id /= "" \/ FetchCalls /= << >> \/ vpc = "v_fetch") =>
                /\ vcreate.err = NoError
                /\ ~vcreate.nil
                /\ vcreate.ID \in ClusterIDs
                /\ vold.id = vcreate.ID
                /\ vcalls[1].api = "CreateOrganizationVirtualDNS"
                /\ \A i \in DOMAIN vcalls :
                      IsFetchCall(vcalls[i]) => vcalls[i].id = vcreate.ID

\* an access rule Create has ended on an empty ID and a virtual DNS Create
\* on a failed create call, each with the create call as its only remote
\* call after the zone lookup
C15_Witness ==
    /\ \E w \in Workers :
          /\ op[w] = "Create" /\ pc[w] = "done" /\ err[w] = "empty_id"
          /\ CountCalls(w, CreateAPI(d[w].scope)) = 1
    /\ vop = "Create" /\ vpc = "done"
    /\ Len(vcalls) = 1
    /\ vcreate.err \in DecodeErrors
    /\ Contains(verr, << "error", "creating", "virtual", "dns" >>)

\* C16: a virtual DNS Read issues one fetch; when the fetch failed with an
\* error whose text contains "HTTP status 404", Read has cleared the
\* resource ID, changed no other field and returned no error; when it
\* failed with another error, Read has returned an error that wraps it and
\* has left the ID and every field as they were.
C16_ReadMissingCluster ==
    (vpc = "done" /\ FetchCalls /= << >>) =>
        /\ Len(FetchCalls) = 1
        /\ Contains(vfetch, HTTPStatus404) =>
              /\ verr = NoError
              /\ vold.id /= ""
              /\ vd = [vold EXCEPT !.id = ""]
        /\ (vfetch /= NoError /\ ~Contains(vfetch, HTTPStatus404)) =>
              /\ verr /= NoError
              /\ Contains(verr, vfetch)
              /\ vd = vold

\* a Read of a cluster in the state got a 404 and cleared the ID
C16_Witness ==
    /\ vop = "Read" /\ vpc = "done"
    /\ Contains(vfetch, HTTPStatus404)
    /\ vold \in KnownClusters
    /\ vd.id = "" /\ vd.name = vold.name
    /\ verr = NoError

ZoneAPIs ==
    {"ListZoneAccessRules", "CreateZoneAccessRule", "UpdateZoneAccessRule",
     "DeleteZoneAccessRule"}
OrganizationAPIs ==
    {"ListOrganizationAccessRules", "CreateOrganizationAccessRule",
     "UpdateOrganizationAccessRule", "DeleteOrganizationAccessRule"}

\* C17: every access rule call of an operation on a resource of scope
\* "zone" is a zone call with the zone ID, and every access rule call of an
\* operation on a resource of any other scope is an organization call with
\* the organization ID; an Import with a scope other than "zone" resolves
\* the owner of the zone and is accepted with that scope.
C17_TwoWayScopeDispatch ==
    \A w \in Workers :
        /\ \A i \in DOMAIN calls[w] :
              calls[w][i].api \in ZoneAPIs \cup OrganizationAPIs =>
                  /\ d[w].scope = "zone" =>
                        /\ calls[w][i].api \in ZoneAPIs
                        /\ calls[w][i].arg = ZoneIDOf[d[w].zone]
                  /\ d[w].scope /= "zone" =>
                        /\ calls[w][i].api \in OrganizationAPIs
                        /\ calls[w][i].arg = OwnerOf[ZoneIDOf[d[w].zone]]
        /\ (op[w] = "Import" /\ pc[w] = "done" /\ err[w] = "" /\ d[w].scope /= "zone") =>
              /\ CountCalls(w, "ZoneDetails") = 1
              /\ d[w].org_id = OwnerOf[ZoneIDOf[d[w].zone]]
        /\ (op[w] = "Import" /\ tokens[w] /= << >> /\ tokens[w][1] /= "zone") =>
              pc[w] = "i_details"

\* a Read of a resource with scope "org" has listed the rules of the
\* organization that owns its zone
C17_Witness ==
    \E w \in Workers :
        /\ op[w] = "Read" /\ FindCompleted(w)
        /\ d[w].scope = "org"
        /\ ListCalls(w) /= << >>
        /\ ListCalls(w)[1] = Call("ListOrganizationAccessRules", "c1", 1)
        /\ d[w].zone_id = "c2"

\* C18: a step changes a cache map only as the store of a scan, which
\* writes the entry of the scan's collection ID in the map of its API
\* family and leaves every other entry of that map and the whole other map
\* as they were; a find answered from the cache gets the entry of its own
\* collection ID in the map of its own API family.
C18_CacheIsolation ==
    [][ /\ caches' /= caches => \E w \in Workers : pc[w] = "store" /\ pc'[w] = "done"
        /\ \A w \in Workers :
              /\ (pc[w] = "store" /\ pc'[w] = "done" /\ d[w].scope = "zone") =>
                    /\ organizationAccessRules' = organizationAccessRules
                    /\ DOMAIN zoneAccessRules' = DOMAIN zoneAccessRules \cup {d[w].zone_id}
                    /\ \A k \in DOMAIN zoneAccessRules \ {d[w].zone_id} :
                          zoneAccessRules'[k] = zoneAccessRules[k]
              /\ (pc[w] = "store" /\ pc'[w] = "done" /\ d[w].scope /= "zone") =>
                    /\ zoneAccessRules' = zoneAccessRules
                    /\ DOMAIN organizationAccessRules' =
                          DOMAIN organizationAccessRules \cup {d[w].org_id}
                    /\ \A k \in DOMAIN organizationAccessRules \ {d[w].org_id} :
                          organizationAccessRules'[k] = organizationAccessRules[k]
              /\ (pc[w] = "check" /\ pc'[w] = "done" /\ d[w].scope = "zone") =>
                    /\ d[w].zone_id \in DOMAIN zoneAccessRules
                    /\ rules'[w] = zoneAccessRules[d[w].zone_id]
              /\ (pc[w] = "check" /\ pc'[w] = "done" /\ d[w].scope /= "zone") =>
                    /\ d[w].org_id \in DOMAIN organizationAccessRules
                    /\ rules'[w] = organizationAccessRules[d[w].org_id]
      ]_vars

\* the zone "c1" and the organization "c1" are both cached, with different
\* rules, beside another organization, and a find for the organization was
\* answered with the organization's rules
C18_Witness ==
    \E w \in Workers :
        /\ FindCompleted(w) /\ ListCalls(w) = << >>
        /\ d[w].scope /= "zone" /\ d[w].org_id = "c1"
        /\ "c1" \in DOMAIN zoneAccessRules
        /\ "c1" \in DOMAIN organizationAccessRules
        /\ zoneAccessRules["c1"] /= organizationAccessRules["c1"]
        /\ rules[w] = organizationAccessRules["c1"]

====
